---- MODULE Spec2Model ----
(***************************************************************************)
(* Cell resampling (cres): the resampling loop of the binary               *)
(* (src/src/bin/main.rs), the cell builder and its weight redistribution   *)
(* (src/src/cell.rs), the naive nearest-neighbour iterator                 *)
(* (src/src/naive_neighbour_search.rs), the orchestrator Cres::run         *)
(* (src/src/cres.rs), the writer's realignment loop                        *)
(* (src/src/writer.rs, src/src/ntuple/writer.rs), concurrent calls of the  *)
(* multiweight Cell::resample, extract_weights (src/src/converter.rs) and  *)
(* the rewindable file readers (src/src/hepmc2/reader.rs,                  *)
(* src/src/stripper_xml/reader.rs).                                        *)
(*                                                                         *)
(* Weights are N64 values in the code.  They are modelled as exact         *)
(* rationals <<numerator, denominator>> in lowest terms with a positive    *)
(* denominator, so that the division in Cell::resample is a division and   *)
(* not the identity; floating-point rounding is not modelled.              *)
(***************************************************************************)
EXTENDS Integers, Sequences, FiniteSets, TLC

VARIABLES
    \* ---- run_main's resampling loop (bin/main.rs) ----
    events,        \* Vec<(N64, Event)>: records [dist, id, weight, x]
    pc,            \* position in run_main's loop
    rest_len,      \* rest.len(): events[rest_len+1 ..] is the growing cell
    cell_weight,   \* running weight sum of the cell
    ncells,        \* cell_radii.len(), saturating at MaxCells
    used,          \* history: ids that were members of an earlier cell
    orig_sum_wt,   \* sum of weights before the loop
    fevents,       \* the Vec<Event> collected after the loop (line 136)
    minweight,     \* opt.unweight.minweight
    loglevel,      \* opt.loglevel
    hepmc_events,  \* reader.enumerate() of line 165: the index it yields next
    written,       \* records passed to writer.write: [idx, id, weight]
    \* ---- Cell::new / Cell::resample over a NaiveNeighbourSearch ----
    pool,          \* &[Event]: records [id, weight, x]
    ns_dist,       \* NaiveNeighbourSearch.dist: Vec<(usize, N64)>
    candidates,    \* NaiveNeighbourIter.candidates
    seed_idx,      \* the point the current query is rooted at
    members,       \* Cell.members
    radius,        \* Cell.radius
    weight_sum,    \* Cell.weight_sum
    cpc,           \* position of the cell builder / iterator consumer
    yielded,       \* history: the (idx, dist) pairs the iterator returned
    pre_sum,       \* history: sum of the members' weights before resample
    nwritten,      \* Cell::resample: members written so far by the loop
    ncalls,        \* history: calls of Cell::new so far, at most MaxCalls
    max_cell_size, \* opt.max_cell_size: {} (None) or {c}
    \* ---- Cres::run and the writer ----
    stream,        \* the records the reader yields, in stream order
    rpc,           \* position in Cres::run
    rpos,          \* number of records consumed in the current pass
    revents,       \* the Vec<Event> of Cres::run
    result,        \* the value Cres::run returned ("none" while running)
    log,           \* history: the collaborator calls made so far
    out,           \* the records handed to the output writer
    cell_out,      \* ids of the events handed to cell writers (cellN files)
    writer_kind,   \* the W of Cres: "file" (FileWriter) or "ntuple"
    log_level,     \* the level the log macros of Cres::run are enabled at
    \* ---- concurrent Cell::resample, multiweight build ----
    lk_weights,    \* events[i].weights: the RwLock-protected weight vectors
    lk_holder,     \* per event: the thread holding its write lock, 0 if free
    lk_members,    \* per thread: Cell.members
    lk_guards,     \* per thread: number of write guards in member_weights
    lk_pc,         \* per thread: position in Cell::resample
    lk_built,      \* history: per thread, Cell.members as Cell::new left it
    lk_weight_sum, \* per thread, Cell.weight_sum as Cell::new left it
    \* ---- extract_weights (converter.rs) ----
    wt_event,      \* event.weights: records [name, weight], name "" if None
    weight_names,  \* the requested weight names
    wt_result,     \* the value extract_weights returned
    wt_pc,         \* "call" before the call, "returned" after it
    \* ---- FileReader (hepmc2/reader.rs, stripper_xml/reader.rs) ----
    rd_format,     \* "hepmc2" or "stripper_xml"
    rd_file,       \* the records of the file: their weights, in file order
    rd_offset,     \* file offset shared by source and its clones, in blocks
    rd_buf,        \* reader: what the BufReader holds and was not yet parsed
    rd_scale,      \* reader.scale (1 for hepmc2)
    rd_scale0,     \* history: the scale FileReader::new set
    rd_yielded,    \* history: weights yielded since new or the last rewind
    rd_eof,        \* next() returned None since then (STRIPPER XML: the
                   \* reader is at Eof for good)
    rd_stale,      \* history: a rewind failed after its seek since then
    rd_passes,     \* history: number of rewinds that succeeded
    rd_prev,       \* history: records yielded in the pass before this one
    rd_calls,      \* number of rewind() calls, saturating at MaxRewinds
    rd_last,       \* history: the last call, "new", "next", "rewind", "err"
                   \* (a failed rewind), "bad_entry", "bad_tag" (a failed next)
    \* ---- Opt::validate (bin/opt.rs) ----
    opt,           \* the parsed options; an Option is {} (None) or {v}
    opt_result,    \* the value validate returned
    opt_pc         \* "call" before the call, "returned" after it

loopVars == <<events, pc, rest_len, cell_weight, ncells, used, orig_sum_wt,
              fevents, minweight, loglevel, hepmc_events, written>>
cellVars == <<pool, ns_dist, candidates, seed_idx, members, radius,
              weight_sum, cpc, yielded, pre_sum, nwritten, ncalls,
              max_cell_size>>
runVars  == <<stream, rpc, rpos, revents, result, log, out, cell_out,
             writer_kind, log_level>>
lockVars == <<lk_weights, lk_holder, lk_members, lk_guards, lk_pc, lk_built,
             lk_weight_sum>>
wtVars   == <<wt_event, weight_names, wt_result, wt_pc>>
rdVars   == <<rd_format, rd_file, rd_offset, rd_buf, rd_scale, rd_scale0,
              rd_yielded, rd_eof, rd_stale, rd_passes, rd_prev, rd_calls,
              rd_last>>
optVars  == <<opt, opt_result, opt_pc>>
extVars  == <<lockVars, wtVars, rdVars, optVars>>
vars     == <<loopVars, cellVars, runVars, extVars>>

(***************************************************************************)
(* Bounds of the model.                                                    *)
(***************************************************************************)
MaxEvents == 3
MaxCells == 2
MaxMembers == 3
MaxWeights == 3
MaxRecords == 3
MaxRewinds == 3
\* calls of Cell::new on one pool
MaxCalls == 1
\* records a BufReader takes from the file in one read
BufCap == 2
WeightValues == {-2, -1, 1, 2}
Positions == {0, 1, 2}
\* values of --minweight; 0 is the default
MinWeights == {0, 2}
\* values of --max-cell-size
CellSizes == {1}
\* values of --loglevel; "info" is the default
LogLevels == {"warn", "info"}

(***************************************************************************)
(* N64 arithmetic on exact rationals.                                      *)
(***************************************************************************)
Abs(i) == IF i < 0 THEN -i ELSE i

RECURSIVE GCD(_, _)
GCD(a, b) == IF b = 0 THEN a ELSE GCD(b, a % b)

\* the fraction n/d in lowest terms with a positive denominator (d # 0)
Norm(n, d) ==
    LET g == GCD(Abs(n), Abs(d))
        s == IF d < 0 THEN -1 ELSE 1
    IN  <<(s * n) \div g, (s * d) \div g>>

n64(i) == <<i, 1>>

RAdd(a, b) == Norm(a[1] * b[2] + b[1] * a[2], a[2] * b[2])

RDivUsize(a, k) == Norm(a[1], a[2] * k)

RLess(a, b) == a[1] * b[2] < b[1] * a[2]

RLeq(a, b) == a[1] * b[2] <= b[1] * a[2]

RNeg(a) == a[1] < 0

RECURSIVE SumWeights(_)
SumWeights(evs) ==
    IF evs = <<>> THEN n64(0)
    ELSE RAdd(Head(evs).weight, SumWeights(Tail(evs)))

(***************************************************************************)
(* The distance between two events.  The metric itself (cres::distance)    *)
(* is outside the sources at hand; events carry one coordinate x and the   *)
(* distance is the absolute difference: non-negative, symmetric, zero iff  *)
(* the coordinates agree.                                                  *)
(***************************************************************************)
distance(e1, e2) == n64(Abs(e1.x - e2.x))

(***************************************************************************)
(* Helpers on Vec.                                                         *)
(***************************************************************************)
Swap(s, i, j) == [s EXCEPT ![i] = s[j], ![j] = s[i]]

\* Option<T>: the empty set for None, {v} for Some(v)
OptionOf(S) == {{}} \cup {{v} : v \in S}

IsSome(o) == o # {}

Min(a, b) == IF a < b THEN a ELSE b

Ids(evs) == {evs[i].id : i \in DOMAIN evs}

\* All pools of n events: ids are the stream indices 0..n-1.
Pools(n) ==
    {[i \in 1..n |-> [id |-> i - 1, weight |-> n64(w[i]), x |-> p[i]]] :
        w \in [1..n -> WeightValues], p \in [1..n -> Positions]}

(***************************************************************************)
(* The order of events (Ord of Event) and the unweighting of bin/main.rs.  *)
(* Neither event.rs nor bin/unweight.rs is among the sources at hand:      *)
(* the order is (central weight, then id) and unweighting replaces every   *)
(* weight below the threshold in magnitude by the signed threshold or 0.   *)
(***************************************************************************)
\* Ord of Event: central weight, then id
EventLess(a, b) ==
    \/ RLess(a.weight, b.weight)
    \/ a.weight = b.weight /\ a.id < b.id

RECURSIVE SortEvents(_)
\* events.par_sort_unstable() (cres.rs line 205, bin/main.rs line 137)
SortEvents(evs) ==
    IF evs = <<>> THEN <<>>
    ELSE LET m == CHOOSE i \in DOMAIN evs :
                    \A j \in DOMAIN evs : j # i => ~EventLess(evs[j], evs[i])
         IN  <<evs[m]>> \o
             SortEvents(SubSeq(evs, 1, m - 1) \o SubSeq(evs, m + 1, Len(evs)))

RAbs(a) == <<Abs(a[1]), a[2]>>

\* the weights one event can have after unweighting with threshold w_min:
\* an event with |weight| < w_min gets sign(weight) * w_min (with
\* probability |weight| / w_min, so never for weight 0) or 0; any other
\* event keeps its weight
UnweightedWeights(w, w_min) ==
    IF RLess(RAbs(w), n64(w_min))
    THEN {n64(0)} \cup (IF w[1] > 0 THEN {n64(w_min)}
                        ELSE IF w[1] < 0 THEN {n64(-w_min)} ELSE {})
    ELSE {w}

\* unweight(&mut events, minweight, &mut rng): the event sequences the
\* call can leave, one for each outcome of the random draws
unweight(evs, w_min) ==
    {[i \in DOMAIN evs |-> [evs[i] EXCEPT !.weight = w[i]]] :
        w \in {f \in [DOMAIN evs -> UNION {UnweightedWeights(evs[j].weight, w_min) :
                                               j \in DOMAIN evs}] :
                  \A i \in DOMAIN evs :
                      f[i] \in UnweightedWeights(evs[i].weight, w_min)}}

(***************************************************************************)
(* run_main: the resampling loop, bin/main.rs lines 76-143.                *)
(* Rust index k is index k+1 here; rest is events[1..rest_len] and the     *)
(* cell is events[rest_len+1 .. Len(events)].                              *)
(***************************************************************************)

\* events.par_iter().enumerate().min_by_key(|e| e.weight): the reduction
\* keeps the left operand on equal keys, so the leftmost minimum is returned.
\* a seed choice that takes the first event, not the minimum
SeedIdxFirst(evs) == 1

SeedIdx(evs) ==
    CHOOSE n \in DOMAIN evs :
        /\ \A j \in DOMAIN evs : RLeq(evs[n].weight, evs[j].weight)
        /\ \A j \in 1..(n - 1) : RLess(evs[n].weight, evs[j].weight)

\* rest.par_iter().enumerate().min_by_key(|(dist, _)| dist) over rest = evs[1..rl]
NearestIdx(evs, rl) ==
    CHOOSE n \in 1..rl :
        /\ \A j \in 1..rl : RLeq(evs[n].dist, evs[j].dist)
        /\ \A j \in 1..(n - 1) : RLess(evs[n].dist, evs[j].dist)

\* lines 86-94: move the seed to the end, set its distance to 0 and
\* compute every other event's distance to it
WithSeedLast(evs, n) ==
    LET sw == Swap(evs, n, Len(evs))
        seed == sw[Len(evs)]
    IN  [i \in DOMAIN sw |->
            IF i = Len(evs) THEN [sw[i] EXCEPT !.dist = n64(0)]
            ELSE [sw[i] EXCEPT !.dist = distance(sw[i], seed)]]

\* Cell::with_weight_sum_unchecked(&mut events[rest_len..], cell_weight)
\* followed by Cell::resample: every member gets weight_sum / nmembers
\* a resampling that counts one member too many
ResampledEventsOffByOne(evs, rl, cw) ==
    LET avg_wt == RDivUsize(cw, Len(evs) - rl + 1)
    IN  [i \in DOMAIN evs |->
            IF i > rl THEN [evs[i] EXCEPT !.weight = avg_wt] ELSE evs[i]]

ResampledEvents(evs, rl, cw) ==
    LET avg_wt == RDivUsize(cw, Len(evs) - rl)
    IN  [i \in DOMAIN evs |->
            IF i > rl THEN [evs[i] EXCEPT !.weight = avg_wt] ELSE evs[i]]

CellOf(evs, rl) == {evs[i].id : i \in (rl + 1)..Len(evs)}

\* while let Some(..) = min_by_key(..): None on an empty pool, or the
\* break of line 81-83 when the minimum weight is not negative
NoSeed ==
    /\ pc = "loop"
    /\ \/ events = <<>>
       \/ /\ events # <<>>
          /\ ~RNeg(events[SeedIdx(events)].weight)
    /\ pc' = "done"
    /\ UNCHANGED <<events, rest_len, cell_weight, ncells, used, orig_sum_wt>>
    /\ UNCHANGED <<fevents, minweight, loglevel, hepmc_events, written,
                   cellVars, runVars, extVars>>

\* lines 77-94: a seed with negative weight is chosen
ChooseSeed ==
    /\ pc = "loop"
    /\ events # <<>>
    /\ LET n == SeedIdx(events) IN
        /\ RNeg(events[n].weight)
        /\ cell_weight' = events[n].weight
        /\ events' = WithSeedLast(events, n)
    /\ rest_len' = Len(events) - 1
    /\ pc' = "grow"
    /\ UNCHANGED <<ncells, used, orig_sum_wt>>
    /\ UNCHANGED <<fevents, minweight, loglevel, hepmc_events, written,
                   cellVars, runVars, extVars>>

\* lines 96-115, one iteration that finds a nearest event
GrowCell ==
    /\ pc = "grow"
    /\ RNeg(cell_weight)
    /\ rest_len > 0
    /\ LET nearest_idx == NearestIdx(events, rest_len) IN
        /\ cell_weight' = RAdd(cell_weight, events[nearest_idx].weight)
        /\ events' = Swap(events, nearest_idx, rest_len)
    /\ rest_len' = rest_len - 1
    /\ UNCHANGED <<pc, ncells, used, orig_sum_wt>>
    /\ UNCHANGED <<fevents, minweight, loglevel, hepmc_events, written,
                   cellVars, runVars, extVars>>

\* lines 96/109-111 and 116-127: the inner loop ends (weight reached or no
\* event left) and the cell is resampled
ResampleCell ==
    /\ pc = "grow"
    /\ ~RNeg(cell_weight) \/ rest_len = 0
    /\ events' = ResampledEvents(events, rest_len, cell_weight)
    /\ ncells' = IF ncells < MaxCells THEN ncells + 1 ELSE ncells
    /\ used' = used \cup CellOf(events, rest_len)
    /\ pc' = "loop"
    /\ UNCHANGED <<rest_len, cell_weight, orig_sum_wt>>
    /\ UNCHANGED <<fevents, minweight, loglevel, hepmc_events, written,
                   cellVars, runVars, extVars>>

\* fn median_radius, lines 29-32: radii[radii.len() / 2] after sorting; the
\* index is out of bounds exactly when no cell was formed
MedianRadiusPanics(n) == n = 0

\* lines 130-131: the two info! lines after the loop.  The arguments of
\* info! are evaluated only when the level is enabled, so median_radius
\* runs at the levels info, debug and trace.
MedianRadius ==
    /\ pc = "done"
    /\ IF loglevel = "info" /\ MedianRadiusPanics(ncells)
       THEN pc' = "panic"
       ELSE pc' = "collect"
    /\ UNCHANGED <<events, rest_len, cell_weight, ncells, used, orig_sum_wt,
                   fevents, minweight, loglevel,
                   hepmc_events, written>>
    /\ UNCHANGED <<cellVars, runVars, extVars>>

\* lines 135-137: the events without their distances, sorted
CollectSort ==
    /\ pc = "collect"
    /\ fevents' = SortEvents([i \in DOMAIN events |->
                                [id |-> events[i].id,
                                 weight |-> events[i].weight,
                                 x |-> events[i].x]])
    /\ pc' = "unweight"
    /\ UNCHANGED <<events, rest_len, cell_weight, ncells, used, orig_sum_wt,
                   minweight, loglevel,
                   hepmc_events, written>>
    /\ UNCHANGED <<cellVars, runVars, extVars>>

\* an unweighting stage that clips to a floor of 2 when the threshold is 0
UnweightStageFloor ==
    /\ pc = "unweight"
    /\ fevents' \in unweight(fevents, IF minweight > 0 THEN minweight ELSE 2)
    /\ pc' = "write"
    /\ UNCHANGED <<events, rest_len, cell_weight, ncells, used, orig_sum_wt,
                   minweight, loglevel,
                   hepmc_events, written>>
    /\ UNCHANGED <<cellVars, runVars, extVars>>

\* lines 139-143: if opt.unweight.minweight > 0.0 { unweight(..) }
UnweightStage ==
    /\ pc = "unweight"
    /\ IF minweight > 0
       THEN fevents' \in unweight(fevents, minweight)
       ELSE UNCHANGED fevents
    /\ pc' = "write"
    /\ UNCHANGED <<events, rest_len, cell_weight, ncells, used, orig_sum_wt,
                   minweight, loglevel,
                   hepmc_events, written>>
    /\ UNCHANGED <<cellVars, runVars, extVars>>

\* lines 147-165: the final sums are logged, the reader is rewound and the
\* writer and the enumerating iterator over the reader are created.
\* reader.rewind() (line 155), File::create (line 156) and Writer::try_from
\* (line 165) can fail, and then run_main returns the error.  No cell
\* writer is created: dump_event_to (line 133) is empty.
OpenWriter ==
    /\ pc = "write"
    /\ \/ /\ hepmc_events' = 0
          /\ pc' = "writing"
       \/ /\ pc' = "err"
          /\ UNCHANGED hepmc_events
    /\ UNCHANGED <<events, rest_len, cell_weight, ncells, used, orig_sum_wt,
                   fevents, minweight, loglevel, written>>
    /\ UNCHANGED <<cellVars, runVars, extVars>>

\* the record handed to writer.write for `event`: the record with stream
\* index idx, its weights rescaled to the event's weight (lines 180-184)
Reweighted(idx, event) == [idx |-> idx, id |-> event.id, weight |-> event.weight]

\* lines 168-195, one pass of `for event in events`.  The reader holds one
\* record per event.  next().unwrap() panics when the reader is exhausted,
\* and the unwrap() of lines 170, 174 and 178 panics on a record the
\* reader fails on; debug_assert_eq! panics in a build with debug
\* assertions and is absent otherwise, so both outcomes are possible;
\* when writer.write fails (line 185) run_main returns the error and the
\* record is not written.
WriteRecord ==
    /\ pc = "writing"
    /\ Len(written) < Len(fevents)
    /\ LET event == fevents[Len(written) + 1]
           nrecords == Len(events)
           hepmc_id == hepmc_events
           \* the stream index of the last record this pass reads
           last == IF hepmc_id < event.id THEN event.id + 1 ELSE hepmc_id
       IN  \/ \* the reader returns Err for record k
              \E k \in hepmc_id..Min(last, nrecords - 1) :
                /\ pc' = "unwrap_err"
                /\ hepmc_events' = k + 1
                /\ UNCHANGED written
           \/ /\ last >= nrecords
              /\ pc' = "unwrap_none"
              /\ hepmc_events' = nrecords
              /\ UNCHANGED written
           \/ /\ last < nrecords
              /\ hepmc_events' = last + 1
              /\ \/ /\ hepmc_id < event.id
                    /\ pc' = "assert_failed"
                    /\ UNCHANGED written
                 \/ /\ pc' = "err"
                    /\ UNCHANGED written
                 \/ /\ pc' = pc
                    /\ written' = Append(written, Reweighted(last, event))
    /\ UNCHANGED <<events, rest_len, cell_weight, ncells, used, orig_sum_wt,
                   fevents, minweight, loglevel>>
    /\ UNCHANGED <<cellVars, runVars, extVars>>

\* lines 196-200: the loop is over, the writer is finished; writer.finish
\* can fail (line 196)
FinishWriter ==
    /\ pc = "writing"
    /\ Len(written) = Len(fevents)
    /\ pc' \in {"finished", "err"}
    /\ UNCHANGED <<events, rest_len, cell_weight, ncells, used, orig_sum_wt,
                   fevents, minweight, loglevel, hepmc_events, written>>
    /\ UNCHANGED <<cellVars, runVars, extVars>>

LockIdle ==
    /\ lk_weights = <<>>
    /\ lk_holder = <<>>
    /\ lk_members = <<>>
    /\ lk_guards = <<>>
    /\ lk_pc = <<>>
    /\ lk_built = <<>>
    /\ lk_weight_sum = <<>>

WeightsIdle ==
    /\ wt_event = <<>>
    /\ weight_names = {}
    /\ wt_result = <<"none">>
    /\ wt_pc = "off"

ReaderIdle ==
    /\ rd_format = "off"
    /\ rd_file = <<>>
    /\ rd_offset = 0
    /\ rd_buf = <<>>
    /\ rd_scale = 1
    /\ rd_scale0 = 1
    /\ rd_yielded = <<>>
    /\ rd_eof = FALSE
    /\ rd_stale = FALSE
    /\ rd_passes = 0
    /\ rd_prev = 0
    /\ rd_calls = 0
    /\ rd_last = "new"

OptIdle ==
    /\ opt = <<>>
    /\ opt_result = <<"none">>
    /\ opt_pc = "off"

ExtIdle == LockIdle /\ WeightsIdle /\ ReaderIdle /\ OptIdle

CellIdle ==
    /\ pool = <<>>
    /\ ns_dist = <<>>
    /\ candidates = <<>>
    /\ seed_idx = 0
    /\ members = <<>>
    /\ radius = n64(0)
    /\ weight_sum = n64(0)
    /\ cpc = "off"
    /\ yielded = <<>>
    /\ pre_sum = n64(0)
    /\ nwritten = 0
    /\ ncalls = 0
    /\ max_cell_size = {}

RunIdle ==
    /\ stream = <<>>
    /\ rpc = "off"
    /\ rpos = 0
    /\ revents = <<>>
    /\ result = <<"none", 0>>
    /\ log = <<>>
    /\ out = <<>>
    /\ cell_out = <<>>
    /\ writer_kind = "off"
    /\ log_level = "off"

LoopIdle ==
    /\ events = <<>>
    /\ pc = "off"
    /\ rest_len = 0
    /\ cell_weight = n64(0)
    /\ ncells = 0
    /\ used = {}
    /\ orig_sum_wt = n64(0)
    /\ fevents = <<>>
    /\ minweight = 0
    /\ loglevel = "off"
    /\ hepmc_events = 0
    /\ written = <<>>

\* lines 47-76: the pool as read, every distance 0, no cell yet
Init ==
    /\ \E n \in 0..MaxEvents : \E p \in Pools(n) :
        /\ events = [i \in 1..n |->
                        [dist |-> n64(0), id |-> p[i].id,
                         weight |-> p[i].weight, x |-> p[i].x]]
        /\ orig_sum_wt = SumWeights(p)
    /\ pc = "loop"
    /\ rest_len = 0
    /\ cell_weight = n64(0)
    /\ ncells = 0
    /\ used = {}
    /\ fevents = <<>>
    /\ minweight \in MinWeights
    /\ loglevel \in LogLevels
    /\ hepmc_events = 0
    /\ written = <<>>
    /\ CellIdle
    /\ RunIdle
    /\ ExtIdle

Next ==
    \/ NoSeed \/ ChooseSeed \/ GrowCell \/ ResampleCell
    \/ MedianRadius \/ CollectSort \/ UnweightStage
    \/ OpenWriter \/ WriteRecord \/ FinishWriter

Spec == Init /\ [][Next]_vars

\* The loop is sequential code: a step that is possible is taken.
FairSpec == Spec /\ WF_vars(Next)

(***************************************************************************)
(* NaiveNeighbourSearch and NaiveNeighbourIter                             *)
(* (naive_neighbour_search.rs).  Point ids and member indices are the      *)
(* code's 0-based values; positions in a Vec are 1-based here.             *)
(***************************************************************************)

\* NeighbourData::new_with_dist: (id, 0) for every point
NewWithDist(npoints) == [i \in 1..npoints |-> <<i - 1, n64(0)>>]

\* a removal that drops the last element and keeps the one at pos
TruncateOnly(v, pos) == SubSeq(v, 1, Len(v) - 1)

\* Vec::swap_remove(pos): the last element takes the place of the removed one
SwapRemove(v, pos) ==
    IF pos = Len(v) THEN SubSeq(v, 1, Len(v) - 1)
    ELSE [SubSeq(v, 1, Len(v) - 1) EXCEPT ![pos] = v[Len(v)]]

\* nearest_in, lines 18-20: rewrite the distance of every point to `point`
NearestInDist(d, evs, point) ==
    [i \in DOMAIN d |-> <<d[i][1], distance(evs[d[i][1] + 1], evs[point + 1])>>]

\* NaiveNeighbourIter::new: candidates 0..len with the seed swap-removed
IterNew(d, seed) == SwapRemove([i \in 1..Len(d) |-> i - 1], seed + 1)

\* an iterator that yields its candidates in storage order
IterFirstPos(cands, d) == 1

\* next(), lines 61-64: candidates.par_iter().enumerate().min_by_key(dist);
\* the reduction keeps the left operand on equal keys (leftmost minimum)
IterNearestPos(cands, d) ==
    CHOOSE pos \in DOMAIN cands :
        /\ \A j \in DOMAIN cands : RLeq(d[cands[pos] + 1][2], d[cands[j] + 1][2])
        /\ \A j \in 1..(pos - 1) : RLess(d[cands[pos] + 1][2], d[cands[j] + 1][2])

(***************************************************************************)
(* Cell::new and Cell::resample (cell.rs), single-weight build.            *)
(***************************************************************************)
RECURSIVE MemberWeightSum(_, _)
MemberWeightSum(evs, ms) ==
    IF ms = <<>> THEN n64(0)
    ELSE RAdd(evs[Head(ms) + 1].weight, MemberWeightSum(evs, Tail(ms)))

\* a write that leaves the seed (the first member) as it was
MemberWriteSkipSeed(evs, ms, k, ws) ==
    IF k = 1 THEN evs
    ELSE [evs EXCEPT ![ms[k] + 1].weight = RDivUsize(ws, Len(ms))]

\* resample, lines 103-106: one pass of the loop over the members, which
\* takes the write lock of member k, stores avg_wt = weight_sum / nmembers
\* and releases the lock
MemberWrite(evs, ms, k, ws) ==
    [evs EXCEPT ![ms[k] + 1].weight = RDivUsize(ws, Len(ms))]

\* Cell::new, lines 34-41, with nearest_in and NaiveNeighbourIter::new.
\* debug_assert!(weight_sum < 0.) of line 35 panics for a seed of
\* non-negative weight in a build with debug assertions and is absent in a
\* build without them, which goes on to build the cell.
CellNew ==
    /\ cpc = "idle"
    /\ ncalls < MaxCalls
    /\ ncalls' = ncalls + 1
    /\ \E s \in 0..(Len(pool) - 1) :
        /\ seed_idx' = s
        /\ \/ /\ ~RNeg(pool[s + 1].weight)
              /\ cpc' = "panic"
              /\ UNCHANGED <<weight_sum, members, ns_dist, candidates>>
           \/ /\ weight_sum' = pool[s + 1].weight
              /\ members' = <<s>>
              /\ ns_dist' = NearestInDist(ns_dist, pool, s)
              /\ candidates' = IterNew(ns_dist, s)
              /\ cpc' = "grow"
    /\ radius' = n64(0)
    /\ yielded' = <<>>
    /\ UNCHANGED <<pool, pre_sum>>
    /\ UNCHANGED <<nwritten, max_cell_size, loopVars, runVars, extVars>>

\* a for loop without the break of lines 51-53
CellAdmitNoBreak ==
    /\ cpc = "grow"
    /\ candidates # <<>>
    /\ LET pos == IterNearestPos(candidates, ns_dist)
           next_idx == candidates[pos]
           dist == ns_dist[next_idx + 1][2]
           ws == RAdd(weight_sum, pool[next_idx + 1].weight)
       IN  /\ candidates' = SwapRemove(candidates, pos)
           /\ yielded' = Append(yielded, <<next_idx, dist>>)
           /\ weight_sum' = ws
           /\ members' = Append(members, next_idx)
           /\ radius' = dist
           /\ cpc' = "grow"
    /\ UNCHANGED <<pool, ns_dist, seed_idx, pre_sum>>
    /\ UNCHANGED <<nwritten, ncalls, max_cell_size, loopVars, runVars, extVars>>

\* Cell::new, lines 43-53: one pass of the for loop that gets Some(..)
CellAdmit ==
    /\ cpc = "grow"
    /\ candidates # <<>>
    /\ LET pos == IterNearestPos(candidates, ns_dist)
           next_idx == candidates[pos]
           dist == ns_dist[next_idx + 1][2]
           ws == RAdd(weight_sum, pool[next_idx + 1].weight)
       IN  /\ candidates' = SwapRemove(candidates, pos)
           /\ yielded' = Append(yielded, <<next_idx, dist>>)
           /\ weight_sum' = ws
           /\ members' = Append(members, next_idx)
           /\ radius' = dist
           /\ cpc' = IF ~RNeg(ws) THEN "built" ELSE "grow"
    /\ UNCHANGED <<pool, ns_dist, seed_idx, pre_sum>>
    /\ UNCHANGED <<nwritten, ncalls, max_cell_size, loopVars, runVars, extVars>>

\* Cell::new, line 43: the iterator returns None and the loop ends
CellExhausted ==
    /\ cpc = "grow"
    /\ candidates = <<>>
    /\ cpc' = "built"
    /\ UNCHANGED <<pool, ns_dist, candidates, seed_idx, members, radius,
                   weight_sum, yielded, pre_sum>>
    /\ UNCHANGED <<nwritten, ncalls, max_cell_size, loopVars, runVars, extVars>>

\* Cell::resample, lines 101-107: one pass of the loop of lines 104-106.
\* Each pass takes and releases the write lock of one member, so the
\* passes are steps of their own.
CellResample ==
    /\ cpc \in {"built", "resampling"}
    /\ pre_sum' = IF cpc = "built" THEN MemberWeightSum(pool, members)
                  ELSE pre_sum
    /\ pool' = MemberWrite(pool, members, nwritten + 1, weight_sum)
    /\ IF nwritten + 1 = Len(members)
       THEN cpc' = "resampled" /\ nwritten' = 0
       ELSE cpc' = "resampling" /\ nwritten' = nwritten + 1
    /\ UNCHANGED <<ns_dist, candidates, seed_idx, members, radius,
                   weight_sum, yielded>>
    /\ UNCHANGED <<ncalls, max_cell_size, loopVars, runVars, extVars>>

\* the cell goes out of scope and its fields with it; the pool and the
\* search structure live on
CellDrop ==
    /\ cpc = "resampled"
    /\ cpc' = "idle"
    /\ members' = <<>>
    /\ candidates' = <<>>
    /\ radius' = n64(0)
    /\ weight_sum' = n64(0)
    /\ yielded' = <<>>
    /\ pre_sum' = n64(0)
    /\ UNCHANGED <<pool, ns_dist, seed_idx>>
    /\ UNCHANGED <<nwritten, ncalls, max_cell_size, loopVars, runVars, extVars>>

\* nearest_in(point) for any point, consumed to the end by IterNext
IterStart ==
    /\ cpc = "idle"
    /\ \E s \in 0..(Len(pool) - 1) :
        /\ ns_dist' = NearestInDist(ns_dist, pool, s)
        /\ candidates' = IterNew(ns_dist, s)
        /\ seed_idx' = s
    /\ yielded' = <<>>
    /\ cpc' = "iter"
    /\ UNCHANGED <<pool, members, radius, weight_sum, pre_sum>>
    /\ UNCHANGED <<nwritten, ncalls, max_cell_size, loopVars, runVars, extVars>>

\* NaiveNeighbourIter::next, lines 60-71
IterNext ==
    /\ cpc = "iter"
    /\ IF candidates # <<>>
       THEN LET pos == IterNearestPos(candidates, ns_dist)
                idx == candidates[pos]
            IN  /\ candidates' = SwapRemove(candidates, pos)
                /\ yielded' = Append(yielded, <<idx, ns_dist[idx + 1][2]>>)
                /\ cpc' = "iter"
       ELSE /\ cpc' = "iterdone"
            /\ UNCHANGED <<candidates, yielded>>
    /\ UNCHANGED <<pool, ns_dist, seed_idx, members, radius, weight_sum,
                   pre_sum>>
    /\ UNCHANGED <<nwritten, ncalls, max_cell_size, loopVars, runVars, extVars>>

InitCell ==
    /\ \E n \in 1..MaxEvents : \E p \in Pools(n) :
        /\ pool = p
        /\ ns_dist = NewWithDist(n)
    /\ candidates = <<>>
    /\ seed_idx = 0
    /\ members = <<>>
    /\ radius = n64(0)
    /\ weight_sum = n64(0)
    /\ cpc = "idle"
    /\ yielded = <<>>
    /\ pre_sum = n64(0)
    /\ nwritten = 0
    /\ ncalls = 0
    /\ max_cell_size \in OptionOf(CellSizes)
    /\ LoopIdle
    /\ RunIdle
    /\ ExtIdle

NextCell ==
    \/ CellNew \/ CellAdmit \/ CellExhausted \/ CellResample \/ CellDrop
    \/ IterStart \/ IterNext

SpecCell == InitCell /\ [][NextCell]_vars

(***************************************************************************)
(* Cres::run (cres.rs lines 157-227) with the writer's loop                *)
(* (writer.rs lines 66-103; ntuple/writer.rs lines 58-87 is the same       *)
(* loop).                                                                  *)
(*                                                                         *)
(* A stream record is [kind, cid, w, w2, err, rid, nw]: kind "ok",         *)
(* "readerr" (the reader yields Err) or "converr" (the converter fails on  *)
(* it); cid is the id the converter leaves in the event; w is the record's *)
(* central weight and w2 its second weight; err is the error value the     *)
(* reader or the converter produces for a failing record; rid is the id    *)
(* the record carries itself (an Option) and nw says that its weight list  *)
(* is empty.  In the second pass any record can fail to be read.  result is *)
(* <<kind, payload>>: the wrapped error value for ReadErr and              *)
(* ConversionErr (the variants hold nothing else), the offending id for    *)
(* IdErr.  When the first pass stopped on a failing record, rpos - 1 is    *)
(* that record's stream index.                                             *)
(***************************************************************************)
RunWeights == {1, 2}
\* the writers of this crate: FileWriter (writer.rs), ntuple::Writer
WriterKinds == {"file", "ntuple"}
\* ids a record of the input can carry itself (avery::Event::id)
RecordIds == {7}
OtherWeights == {3}
ConverterIds == {0, 1, 2}
\* error values of the reader and of the converter, as codes
ErrValues == {101, 102}

\* records the reader yields and the converter accepts: without an id of
\* their own and with weights, and one record each that carries an id and
\* that has an empty weight list
OkRecords ==
    [kind : {"ok"}, cid : ConverterIds, w : RunWeights, w2 : OtherWeights,
     err : {0}, rid : {{}}, nw : {FALSE}]
    \cup [kind : {"ok"}, cid : {0}, w : {1}, w2 : OtherWeights,
          err : {0}, rid : {{v} : v \in RecordIds}, nw : {FALSE}]
    \cup [kind : {"ok"}, cid : {0}, w : {1}, w2 : OtherWeights,
          err : {0}, rid : {{}}, nw : {TRUE}]

ErrRecords ==
    [kind : {"readerr", "converr"}, cid : {0}, w : {1}, w2 : OtherWeights,
     err : ErrValues, rid : {{}}, nw : {FALSE}]

Streams(n) == [1..n -> OkRecords \cup ErrRecords]

\* the sub-sequence of evs at the indices in keep
RECURSIVE Retain(_, _)
Retain(evs, keep) ==
    IF evs = <<>> THEN <<>>
    ELSE LET init == SubSeq(evs, 1, Len(evs) - 1)
             last == evs[Len(evs)]
         IN  IF Len(evs) \in keep THEN Append(Retain(init, keep), last)
             ELSE Retain(init, keep)

CountOp(lg, op) == Cardinality({i \in DOMAIN lg : lg[i][1] = op})

\* line 172, self.reader.rewind().map_err(RewindErr)?
Rewind1 ==
    /\ rpc = "start"
    /\ log' = Append(log, <<"rewind", 0>>)
    /\ rpos' = 0
    /\ \/ rpc' = "read" /\ UNCHANGED result
       \/ rpc' = "done" /\ result' = <<"RewindErr", 0>>
    /\ UNCHANGED <<stream, revents, out>>
    /\ UNCHANGED <<cell_out, writer_kind, log_level, loopVars, cellVars, extVars>>

\* a first pass that skips a failing record when more records follow
ReadConvertSkipsErrors ==
    /\ rpc = "read"
    /\ rpos < Len(stream)
    /\ LET ev == stream[rpos + 1] IN
        IF ev.kind = "ok"
        THEN /\ log' = log \o <<<<"read", rpos>>, <<"convert", rpos>>>>
             /\ revents' = Append(revents, [id |-> ev.cid, weight |-> n64(ev.w)])
             /\ UNCHANGED <<rpc, result>>
        ELSE /\ log' = log \o <<<<"read", rpos>>, <<"convert", rpos>>>>
             /\ IF rpos + 1 < Len(stream)
                THEN UNCHANGED <<rpc, result>>
                ELSE /\ rpc' = "done"
                     /\ result' = <<IF ev.kind = "readerr" THEN "ReadErr"
                                    ELSE "ConversionErr", ev.err>>
             /\ UNCHANGED revents
    /\ rpos' = rpos + 1
    /\ UNCHANGED <<stream, out>>
    /\ UNCHANGED <<cell_out, writer_kind, log_level, loopVars, cellVars, extVars>>

\* lines 182-190: one item of the reader through the map closure; collect
\* into Result stops at the first Err
ReadConvert ==
    /\ rpc = "read"
    /\ rpos < Len(stream)
    /\ LET ev == stream[rpos + 1] IN
        CASE ev.kind = "readerr" ->
                /\ log' = Append(log, <<"read", rpos>>)
                /\ rpc' = "done"
                /\ result' = <<"ReadErr", ev.err>>
                /\ UNCHANGED revents
          [] ev.kind = "converr" ->
                /\ log' = log \o <<<<"read", rpos>>, <<"convert", rpos>>>>
                /\ rpc' = "done"
                /\ result' = <<"ConversionErr", ev.err>>
                /\ UNCHANGED revents
          [] ev.kind = "ok" ->
                /\ log' = log \o <<<<"read", rpos>>, <<"convert", rpos>>>>
                /\ revents' = Append(revents, [id |-> ev.cid, weight |-> n64(ev.w)])
                /\ UNCHANGED <<rpc, result>>
    /\ rpos' = rpos + 1
    /\ UNCHANGED <<stream, out>>
    /\ UNCHANGED <<cell_out, writer_kind, log_level, loopVars, cellVars, extVars>>

\* ids assigned counting from one
AssignIdsFromOne ==
    /\ rpc = "read"
    /\ rpos = Len(stream)
    /\ revents' = [i \in DOMAIN revents |-> [revents[i] EXCEPT !.id = i]]
    /\ rpc' = "resample"
    /\ UNCHANGED <<stream, rpos, result, log, out>>
    /\ UNCHANGED <<cell_out, writer_kind, log_level, loopVars, cellVars, extVars>>

\* an id loop that reports the last non-zero id
AssignIdsReportsLast ==
    /\ rpc = "read"
    /\ rpos = Len(stream)
    /\ IF \E i \in DOMAIN revents : revents[i].id # 0
       THEN LET last == CHOOSE i \in DOMAIN revents :
                            /\ revents[i].id # 0
                            /\ \A j \in (i + 1)..Len(revents) : revents[j].id = 0
            IN  /\ result' = <<"IdErr", revents[last].id>>
                /\ rpc' = "done"
                /\ UNCHANGED revents
       ELSE /\ revents' = [i \in DOMAIN revents |-> [revents[i] EXCEPT !.id = i - 1]]
            /\ rpc' = "resample"
            /\ UNCHANGED result
    /\ UNCHANGED <<stream, rpos, log, out>>
    /\ UNCHANGED <<cell_out, writer_kind, log_level, loopVars, cellVars, extVars>>

\* bin/main.rs lines 180-184: a weight of the record multiplied by the
\* ratio of the event's weight to the record's old central weight
RescaledWeight(w, new, old) == Norm(w * new[1], new[2] * old)

\* C15: in every record written the central (first) weight is the output
\* event's resampled weight and every other weight of the record is
\* multiplied by the ratio new central weight / old central weight.
OtherWeightsRescaled ==
    \A k \in DOMAIN out :
        LET rec == stream[out[k].idx + 1] IN
        /\ out[k].weights[1] = revents[k].weight
        /\ out[k].weights[2] = RescaledWeight(rec.w2, revents[k].weight, rec.w)

\* lines 192-199: the reader is exhausted; ids are checked and assigned
AssignIds ==
    /\ rpc = "read"
    /\ rpos = Len(stream)
    /\ IF \E i \in DOMAIN revents : revents[i].id # 0
       THEN LET first == CHOOSE i \in DOMAIN revents :
                            /\ revents[i].id # 0
                            /\ \A j \in 1..(i - 1) : revents[j].id = 0
            IN  /\ result' = <<"IdErr", revents[first].id>>
                /\ rpc' = "done"
                /\ revents' = [i \in DOMAIN revents |->
                                 IF i < first THEN [revents[i] EXCEPT !.id = i - 1]
                                 ELSE revents[i]]
       ELSE /\ revents' = [i \in DOMAIN revents |-> [revents[i] EXCEPT !.id = i - 1]]
            /\ rpc' = "resample"
            /\ UNCHANGED result
    /\ UNCHANGED <<stream, rpos, log, out>>
    /\ UNCHANGED <<cell_out, writer_kind, log_level, loopVars, cellVars, extVars>>

\* line 201: self.resampler.resample(events).map_err(ResamplingErr)?
\* The resampler is a type parameter: it fails, or returns the events with
\* some weights.
Resample ==
    /\ rpc = "resample"
    /\ log' = Append(log, <<"resample", 0>>)
    /\ \/ /\ rpc' = "done"
          /\ result' = <<"ResamplingErr", 0>>
          /\ UNCHANGED revents
       \/ /\ \E w \in [DOMAIN revents -> RunWeights] :
                revents' = [i \in DOMAIN revents |->
                               [revents[i] EXCEPT !.weight = n64(w[i])]]
          /\ rpc' = "unweight"
          /\ UNCHANGED result
    /\ UNCHANGED <<stream, rpos, out>>
    /\ UNCHANGED <<cell_out, writer_kind, log_level, loopVars, cellVars, extVars>>

\* lines 203-204: self.unweighter.unweight(events).map_err(UnweightErr)?
\* The unweighter is a type parameter: it fails, or returns the survivors.
Unweight ==
    /\ rpc = "unweight"
    /\ log' = Append(log, <<"unweight", 0>>)
    /\ \/ /\ rpc' = "done"
          /\ result' = <<"UnweightErr", 0>>
          /\ UNCHANGED revents
       \/ /\ \E keep \in SUBSET DOMAIN revents : revents' = Retain(revents, keep)
          /\ rpc' = "sort"
          /\ UNCHANGED result
    /\ UNCHANGED <<stream, rpos, out>>
    /\ UNCHANGED <<cell_out, writer_kind, log_level, loopVars, cellVars, extVars>>

\* lines 207-222: -sum_neg_wt / (sum_wt - sum_neg_wt * 2.) is 0/0 = NaN
\* exactly when no event has a non-zero weight; the expression is
\* evaluated when the info level is enabled
NegFractionIsNaN(evs) == \A i \in DOMAIN evs : evs[i].weight[1] = 0

\* line 205: events.par_sort_unstable(), and lines 207-222: the sums and
\* the two info! lines.  An N64 that becomes NaN panics in a build with
\* debug assertions and is carried on in a build without them.
Sort ==
    /\ rpc = "sort"
    /\ log' = Append(log, <<"sort", 0>>)
    /\ revents' = SortEvents(revents)
    /\ \/ /\ rpc' = "rewind2"
          /\ UNCHANGED result
       \/ /\ log_level = "info"
          /\ NegFractionIsNaN(revents)
          /\ rpc' = "done"
          /\ result' = <<"panic", 2>>
    /\ UNCHANGED <<stream, rpos, out>>
    /\ UNCHANGED <<cell_out, writer_kind, log_level, loopVars, cellVars, extVars>>

\* a run that goes on to the writer without the second rewind
Rewind2Skipped ==
    /\ rpc = "rewind2"
    /\ rpc' = "write"
    /\ UNCHANGED <<stream, rpos, revents, result, log, out>>
    /\ UNCHANGED <<cell_out, writer_kind, log_level, loopVars, cellVars, extVars>>

\* line 224: self.reader.rewind().map_err(RewindErr)?
\* A rewind that fails leaves the reader where it failed: not moved, or
\* back at the start.
Rewind2 ==
    /\ rpc = "rewind2"
    /\ log' = Append(log, <<"rewind", 0>>)
    /\ \/ rpc' = "write" /\ rpos' = 0 /\ UNCHANGED result
       \/ rpc' = "done" /\ rpos' \in {0, rpos} /\ result' = <<"RewindErr", 0>>
    /\ UNCHANGED <<stream, revents, out>>
    /\ UNCHANGED <<cell_out, writer_kind, log_level, loopVars, cellVars, extVars>>

\* line 226 and writer.rs lines 44-47: the writer is invoked and creates
\* its output, or fails with CreateErr
WriteStart ==
    /\ rpc = "write"
    /\ log' = Append(log, <<"write", 0>>)
    /\ \/ rpc' = "writing" /\ UNCHANGED result
       \/ rpc' = "done" /\ result' = <<"WriteErr", 0>>
    /\ UNCHANGED <<stream, rpos, revents, out>>
    /\ UNCHANGED <<cell_out, writer_kind, log_level, loopVars, cellVars, extVars>>

\* writer.rs lines 69-76 for one output event with id `id`, the reader
\* having yielded `pos` records of `n`: the stream index of the record
\* left in read_event and the number of records consumed, or a panic of
\* next().unwrap() on an exhausted reader
ReadForEvent(pos, id, n) ==
    IF pos >= n THEN [panic |-> TRUE, idx |-> 0, pos |-> pos]
    ELSE IF pos < id
         THEN IF id >= n THEN [panic |-> TRUE, idx |-> 0, pos |-> n]
              ELSE [panic |-> FALSE, idx |-> id, pos |-> id + 1]
         ELSE [panic |-> FALSE, idx |-> pos, pos |-> pos + 1]

\* writer.rs lines 80-83 (ntuple/writer.rs lines 71-74): the weights of
\* the record read from the stream, the first one overwritten by the
\* event's weight
SetCentralWeight(rec, weight) == <<weight, n64(rec.w2)>>

\* the record handed to the writers for `event`: the record with stream
\* index idx with its central weight overwritten.  rid is the id the input
\* record carries itself; FileWriter fills it in from the event when it is
\* missing (writer.rs lines 77-79), ntuple::Writer leaves it alone.
OutEvent(idx, event) ==
    LET rec == stream[idx + 1] IN
    [idx |-> idx, id |-> event.id, weight |-> event.weight,
     weights |-> SetCentralWeight(rec, event.weight),
     rec_id |-> IF writer_kind = "file" /\ rec.rid = {} THEN {event.id}
                ELSE rec.rid]

\* writer.rs lines 68-96 and ntuple/writer.rs lines 62-87: one pass of the
\* loop over the output events.  Every record read can come back as an
\* error (map_err(ReadErr)?), and the reader stops there.  A record without
\* weights panics in first_mut().unwrap().  `dumped` says whether the cell
\* collector lists the event for some cell: FileWriter writes to the cell
\* writers first and to the main writer afterwards, ntuple::Writer to the
\* main writer first.  Every error ends the call and Cres::run returns it
\* as WriteErr.  Panics: <<"panic", 0>> is next().unwrap() on an exhausted
\* reader, <<"panic", 1>> the record without weights.
WriteEvent ==
    /\ rpc = "writing"
    /\ Len(out) < Len(revents)
    /\ LET event == revents[Len(out) + 1]
           r == ReadForEvent(rpos, event.id, Len(stream))
           WriteErrWith(o, c) ==
               /\ rpc' = "done"
               /\ result' = <<"WriteErr", 0>>
               /\ out' = o
               /\ cell_out' = c
       IN  \/ \E k \in rpos..(r.pos - 1) :
                /\ rpos' = k + 1
                /\ WriteErrWith(out, cell_out)
           \/ /\ r.panic
              /\ rpos' = r.pos
              /\ rpc' = "done"
              /\ result' = <<"panic", 0>>
              /\ UNCHANGED <<out, cell_out>>
           \/ /\ ~r.panic
              /\ rpos' = r.pos
              /\ \/ /\ stream[r.idx + 1].nw
                    /\ rpc' = "done"
                    /\ result' = <<"panic", 1>>
                    /\ UNCHANGED <<out, cell_out>>
                 \/ \E dumped \in {d \in BOOLEAN : ~stream[r.idx + 1].nw} :
                    LET o == Append(out, OutEvent(r.idx, event))
                        c == Append(cell_out, event.id)
                    IN  \/ /\ out' = o
                           /\ cell_out' = IF dumped THEN c ELSE cell_out
                           /\ UNCHANGED <<rpc, result>>
                        \/ WriteErrWith(out, cell_out)
                        \/ /\ dumped
                           /\ writer_kind = "file"
                           /\ WriteErrWith(out, c)
                        \/ /\ dumped
                           /\ writer_kind = "ntuple"
                           /\ \/ WriteErrWith(o, cell_out)
                              \/ WriteErrWith(o, c)
    /\ UNCHANGED <<stream, revents, log, writer_kind, log_level>>
    /\ UNCHANGED <<loopVars, cellVars, extVars>>

\* writer.rs lines 97-102: finish the main writer and the cell writers;
\* ntuple::Writer has no such step (ntuple/writer.rs lines 86-87).
\* Cres::run returns the result.
WriteFinish ==
    /\ rpc = "writing"
    /\ Len(out) = Len(revents)
    /\ rpc' = "done"
    /\ \/ result' = <<"Ok", 0>>
       \/ /\ writer_kind = "file"
          /\ result' = <<"WriteErr", 0>>
    /\ UNCHANGED <<stream, rpos, revents, log, out>>
    /\ UNCHANGED <<cell_out, writer_kind, log_level, loopVars, cellVars, extVars>>

InitRun ==
    /\ \E n \in 0..MaxEvents : stream \in Streams(n)
    /\ rpc = "start"
    /\ rpos = 0
    /\ revents = <<>>
    /\ result = <<"none", 0>>
    /\ log = <<>>
    /\ out = <<>>
    /\ cell_out = <<>>
    /\ writer_kind \in WriterKinds
    /\ log_level \in LogLevels
    /\ LoopIdle
    /\ CellIdle
    /\ ExtIdle

NextRun ==
    \/ Rewind1 \/ ReadConvert \/ AssignIds \/ Resample \/ Unweight \/ Sort
    \/ Rewind2 \/ WriteStart \/ WriteEvent \/ WriteFinish

SpecRun == InitRun /\ [][NextRun]_vars

(***************************************************************************)
(* Cell::resample run by several threads at once on cells over the same    *)
(* events: the multiweight build (cell.rs lines 70-99) and the             *)
(* single-weight build (lines 101-107).  Each event's weights sit behind   *)
(* an RwLock; write() blocks while another thread holds the lock.  Event   *)
(* indices are the code's 0-based values.  In the single-weight build the  *)
(* weights of an event are one number, modelled as a vector of length 1.   *)
(***************************************************************************)
Threads == {1, 2}
LockEvents == {0, 1, 2}
LockWeights == {-1, 1}
\* the weight vectors of an event: the central weight and one more weight
LockWeightVectors == {<<n64(w), n64(1)>> : w \in LockWeights} \cup {<<n64(1), n64(2)>>}
\* the weights of an event in the single-weight build
LockSingleWeights == {<<n64(w)>> : w \in {-2, -1, 1}}

\* the sequences of pairwise distinct event indices with n entries
RECURSIVE DistinctSeqs(_)
DistinctSeqs(n) ==
    IF n = 0 THEN {<<>>}
    ELSE UNION {{Append(q, e) : e \in LockEvents \ {q[i] : i \in DOMAIN q}} :
                    q \in DistinctSeqs(n - 1)}

\* lock order left as Cell::new built the members
MembersAsBuilt(ms) == ms

RECURSIVE SortUsize(_)
\* line 81: self.members.sort_unstable()
SortUsize(ms) ==
    IF ms = <<>> THEN <<>>
    ELSE LET m == CHOOSE i \in DOMAIN ms : \A j \in DOMAIN ms : ms[i] <= ms[j]
         IN  <<ms[m]>> \o
             SortUsize(SubSeq(ms, 1, m - 1) \o SubSeq(ms, m + 1, Len(ms)))

RECURSIVE SumComponent(_, _, _)
\* the sum of component k of the weight vectors of the events in ms
SumComponent(wts, ms, k) ==
    IF ms = <<>> THEN n64(0)
    ELSE RAdd(wts[Head(ms)][k], SumComponent(wts, Tail(ms), k))

RECURSIVE SumWeightVectors(_, _)
\* lines 87-90: the component-wise sum of the members' weight vectors
SumWeightVectors(wts, ms) ==
    IF ms = <<>> THEN <<n64(0), n64(0)>>
    ELSE LET r == SumWeightVectors(wts, Tail(ms))
             w == wts[Head(ms)]
         IN  <<RAdd(w[1], r[1]), RAdd(w[2], r[2])>>

\* a mean that normalises the central weight only
AvgWeightsCentralOnly(wts, ms) ==
    LET sum == SumWeightVectors(wts, ms)
    IN  <<RDivUsize(sum[1], Len(ms)), sum[2]>>

\* lines 87-94: the mean weight vector of the cell
AvgWeights(wts, ms) ==
    LET sum == SumWeightVectors(wts, ms)
    IN  <<RDivUsize(sum[1], Len(ms)), RDivUsize(sum[2], Len(ms))>>

\* line 81
LockSort(t) ==
    /\ lk_pc[t] = "sort"
    /\ lk_members' = [lk_members EXCEPT ![t] = SortUsize(lk_members[t])]
    /\ lk_pc' = [lk_pc EXCEPT ![t] = "lock"]
    /\ UNCHANGED <<lk_weights, lk_holder, lk_guards, lk_built, lk_weight_sum>>
    /\ UNCHANGED <<loopVars, cellVars, runVars, wtVars, rdVars, optVars>>

\* lines 82-84: the next weights.write() of the iterator; the call returns
\* only when no other thread holds the lock
LockAcquire(t) ==
    /\ lk_pc[t] = "lock"
    /\ lk_guards[t] < Len(lk_members[t])
    /\ LET idx == lk_members[t][lk_guards[t] + 1] IN
        /\ lk_holder[idx] = 0
        /\ lk_holder' = [lk_holder EXCEPT ![idx] = t]
    /\ lk_guards' = [lk_guards EXCEPT ![t] = lk_guards[t] + 1]
    /\ UNCHANGED <<lk_weights, lk_members, lk_pc, lk_built, lk_weight_sum>>
    /\ UNCHANGED <<loopVars, cellVars, runVars, wtVars, rdVars, optVars>>

\* lines 85-98: every guard is held; the mean is written to every member
LockResample(t) ==
    /\ lk_pc[t] = "lock"
    /\ lk_guards[t] = Len(lk_members[t])
    /\ LET avg_wts == AvgWeights(lk_weights, lk_members[t]) IN
        lk_weights' = [e \in LockEvents |->
                         IF \E i \in DOMAIN lk_members[t] : lk_members[t][i] = e
                         THEN avg_wts ELSE lk_weights[e]]
    /\ lk_pc' = [lk_pc EXCEPT ![t] = "unlock"]
    /\ UNCHANGED <<lk_holder, lk_guards, lk_members, lk_built, lk_weight_sum>>
    /\ UNCHANGED <<loopVars, cellVars, runVars, wtVars, rdVars, optVars>>

\* line 99: member_weights goes out of scope and its guards are dropped
\* one after the other, first element first, which is the guard of the
\* lowest member; resample returns after the last one
LockRelease(t) ==
    /\ lk_pc[t] = "unlock"
    /\ lk_guards[t] > 0
    /\ LET idx == lk_members[t][Len(lk_members[t]) - lk_guards[t] + 1] IN
        lk_holder' = [lk_holder EXCEPT ![idx] = 0]
    /\ lk_guards' = [lk_guards EXCEPT ![t] = lk_guards[t] - 1]
    /\ lk_pc' = [lk_pc EXCEPT ![t] = IF lk_guards[t] = 1 THEN "done" ELSE "unlock"]
    /\ UNCHANGED <<lk_weights, lk_members, lk_built, lk_weight_sum>>
    /\ UNCHANGED <<loopVars, cellVars, runVars, wtVars, rdVars, optVars>>

\* lines 103-106, single-weight build: one pass of the loop takes the
\* lock of the next member, in the order Cell::new listed the members,
\* writes weight_sum / nmembers and drops the guard at the end of the
\* statement; no lock is held between two passes
LockWriteSingle(t) ==
    /\ lk_pc[t] = "single"
    /\ lk_guards[t] < Len(lk_members[t])
    /\ LET idx == lk_members[t][lk_guards[t] + 1]
           avg_wt == RDivUsize(lk_weight_sum[t], Len(lk_members[t])) IN
        /\ lk_holder[idx] = 0
        /\ lk_weights' = [lk_weights EXCEPT ![idx] = <<avg_wt>>]
    /\ lk_guards' = [lk_guards EXCEPT ![t] = lk_guards[t] + 1]
    /\ lk_pc' = [lk_pc EXCEPT ![t] = IF lk_guards[t] + 1 = Len(lk_members[t])
                                     THEN "done" ELSE "single"]
    /\ UNCHANGED <<lk_holder, lk_members, lk_built, lk_weight_sum>>
    /\ UNCHANGED <<loopVars, cellVars, runVars, wtVars, rdVars, optVars>>

\* the cells were built on the events' weights before any of them is
\* resampled; the build has the multiweight feature or not
InitLock ==
    /\ \/ /\ lk_weights \in [LockEvents -> LockWeightVectors]
          /\ lk_pc = [t \in Threads |-> "sort"]
       \/ /\ lk_weights \in [LockEvents -> LockSingleWeights]
          /\ lk_pc = [t \in Threads |-> "single"]
    /\ lk_holder = [e \in LockEvents |-> 0]
    /\ lk_members \in [Threads -> UNION {DistinctSeqs(n) : n \in 1..MaxMembers}]
    /\ lk_built = lk_members
    /\ lk_weight_sum = [t \in Threads |->
                            SumComponent(lk_weights, lk_members[t], 1)]
    /\ lk_guards = [t \in Threads |-> 0]
    /\ LoopIdle
    /\ CellIdle
    /\ RunIdle
    /\ WeightsIdle
    /\ ReaderIdle
    /\ OptIdle

NextLock ==
    \E t \in Threads :
        \/ LockSort(t) \/ LockAcquire(t) \/ LockResample(t) \/ LockRelease(t)
        \/ LockWriteSingle(t)

SpecLock == InitLock /\ [][NextLock]_vars

(***************************************************************************)
(* extract_weights (converter.rs lines 166-200, multiweight build).  An    *)
(* entry of event.weights is [name, weight]; the name "" stands for None.  *)
(* The result is <<"Ok", weights>> or                                      *)
(* <<"WeightNotFound", missing, all_names>>.                               *)
(***************************************************************************)
WeightNames == {"a", "b"}
EntryNames == {"", "a", "b"}
EntryWeights == {1, 2}

\* lines 176-183 with the first entry left out
SeenNamesAfterFirst(ev, names) ==
    {n \in names : \E i \in DOMAIN ev : i > 1 /\ ev[i].name = n}

\* lines 174-183: the requested names weight_seen maps to true
SeenNames(ev, names) == {n \in names : \E i \in DOMAIN ev : ev[i].name = n}

RECURSIVE NamedWeights(_, _)
\* lines 176-183: the weights pushed by the loop, one for every entry
\* whose name is requested, in the order of the entries
NamedWeights(ev, names) ==
    IF ev = <<>> THEN <<>>
    ELSE LET rest == NamedWeights(Tail(ev), names)
         IN  IF Head(ev).name # "" /\ Head(ev).name \in names
             THEN <<n64(Head(ev).weight)>> \o rest
             ELSE rest

RECURSIVE AllNames(_)
\* lines 189-193: the names of the entries that have one
AllNames(ev) ==
    IF ev = <<>> THEN <<>>
    ELSE IF Head(ev).name # "" THEN <<Head(ev).name>> \o AllNames(Tail(ev))
         ELSE AllNames(Tail(ev))

\* the values extract_weights can return; find_map runs over a HashMap, so
\* which of several missing names is reported is not fixed
extract_weights(ev, names) ==
    LET missing == names \ SeenNames(ev, names)
    IN  IF missing # {}
        THEN {<<"WeightNotFound", m, AllNames(ev)>> : m \in missing}
        ELSE {<<"Ok", <<n64(ev[1].weight)>> \o NamedWeights(ev, names)>>}

ExtractWeights ==
    /\ wt_pc = "call"
    /\ wt_result' \in extract_weights(wt_event, weight_names)
    /\ wt_pc' = "returned"
    /\ UNCHANGED <<wt_event, weight_names>>
    /\ UNCHANGED <<loopVars, cellVars, runVars, lockVars, rdVars, optVars>>

InitWeights ==
    /\ \E n \in 1..MaxWeights :
            wt_event \in [1..n -> [name : EntryNames, weight : EntryWeights]]
    /\ weight_names \in SUBSET WeightNames
    /\ wt_result = <<"none">>
    /\ wt_pc = "call"
    /\ LoopIdle
    /\ CellIdle
    /\ RunIdle
    /\ LockIdle
    /\ ReaderIdle
    /\ OptIdle

NextWeights == ExtractWeights

SpecWeights == InitWeights /\ [][NextWeights]_vars

(***************************************************************************)
(* FileReader of hepmc2/reader.rs and stripper_xml/reader.rs.  source is   *)
(* the open file; reader parses from a BufReader over a clone of source,   *)
(* and a clone shares the file offset with source.  A record is its        *)
(* weight; the STRIPPER XML reader multiplies it by its scale.  The file   *)
(* is a sequence of blocks of one record each, and the BufReader holds     *)
(* BufCap blocks.  A STRIPPER XML file starts with its header, the XML     *)
(* declaration and the Eventrecord start tag, which lies in the first      *)
(* block; a file without records is one block holding the header.          *)
(***************************************************************************)
Formats == {"hepmc2", "stripper_xml"}
RecordWeights == {1, 2}
Scales == {1, 2}

\* what quick_xml reads from the header of a STRIPPER XML file; a record is
\* a positive number
XmlDecl == -1
EventrecordTag == -2

\* the header at the start of the file
Header(format) ==
    IF format = "stripper_xml" THEN <<XmlDecl, EventrecordTag>> ELSE <<>>

\* the number of blocks of the file
NBlocks(format, file) ==
    IF format = "stripper_xml" /\ file = <<>> THEN 1 ELSE Len(file)

\* the file offset after BufReader::fill_buf on an empty buffer at offset
FillEnd(format, file, offset) == Min(offset + BufCap, NBlocks(format, file))

\* BufReader::fill_buf on an empty buffer: what the blocks read at offset
\* hold
FillBuf(format, file, offset) ==
    (IF offset = 0 THEN Header(format) ELSE <<>>)
        \o SubSeq(file, offset + 1,
                  Min(FillEnd(format, file, offset), Len(file)))

\* the file offset a new reader leaves: Reader::with_scaling and
\* Reader::new_scaled read the header through the new BufReader, which
\* fills its buffer from the start of the file; hepmc2::Reader::new reads
\* nothing
NewOffset(format, file) ==
    IF format = "stripper_xml" THEN FillEnd(format, file, 0) ELSE 0

\* what the BufReader of a new reader holds: the records that followed the
\* header in its first fill
NewBuf(format, file) ==
    IF format = "stripper_xml"
    THEN SubSeq(file, 1, Min(FillEnd(format, file, 0), Len(file)))
    ELSE <<>>

\* Iterator::next (hepmc2/reader.rs lines 37-39, stripper_xml/reader.rs
\* lines 69-87 and 179-262).  A quick_xml reader that has returned Eof
\* returns Eof on every later call, so the STRIPPER XML reader goes on
\* returning None.  A STRIPPER XML reader of an older pass that meets the
\* header returns Err(BadEntry) for the declaration (line 259) and
\* Err(BadTag) for the Eventrecord tag (line 239).
ReaderNext ==
    /\ rd_format \in Formats
    /\ IF rd_format = "stripper_xml" /\ rd_eof
       THEN /\ rd_last' = "next"
            /\ UNCHANGED <<rd_offset, rd_buf, rd_yielded, rd_eof>>
       ELSE LET filled == IF rd_buf = <<>>
                          THEN FillBuf(rd_format, rd_file, rd_offset)
                          ELSE rd_buf
            IN  /\ rd_offset' = IF rd_buf = <<>>
                                THEN FillEnd(rd_format, rd_file, rd_offset)
                                ELSE rd_offset
                /\ IF filled = <<>>
                   THEN /\ rd_eof' = TRUE
                        /\ rd_last' = "next"
                        /\ UNCHANGED <<rd_buf, rd_yielded>>
                   ELSE /\ rd_buf' = Tail(filled)
                        /\ UNCHANGED rd_eof
                        /\ IF Head(filled) = XmlDecl
                           THEN rd_last' = "bad_entry" /\ UNCHANGED rd_yielded
                           ELSE IF Head(filled) = EventrecordTag
                           THEN rd_last' = "bad_tag" /\ UNCHANGED rd_yielded
                           ELSE /\ rd_yielded' =
                                     Append(rd_yielded, Head(filled) * rd_scale)
                                /\ rd_last' = "next"
    /\ UNCHANGED <<rd_format, rd_file, rd_scale, rd_scale0, rd_stale,
                   rd_passes, rd_prev, rd_calls>>
    /\ UNCHANGED <<loopVars, cellVars, runVars, lockVars, wtVars, optVars>>

\* a rewind that seeks but goes on with the reader it has
ReaderRewindKeepsReader ==
    /\ rd_format \in Formats
    /\ rd_calls < MaxRewinds
    /\ rd_calls' = rd_calls + 1
    /\ rd_offset' = 0
    /\ rd_yielded' = <<>>
    /\ rd_eof' = FALSE
    /\ rd_stale' = FALSE
    /\ rd_passes' = rd_passes + 1
    /\ rd_prev' = Len(rd_yielded)
    /\ rd_last' = "rewind"
    /\ UNCHANGED <<rd_format, rd_file, rd_buf, rd_scale, rd_scale0>>
    /\ UNCHANGED <<loopVars, cellVars, runVars, lockVars, wtVars, optVars>>

\* Rewind::rewind (hepmc2/reader.rs lines 24-31, stripper_xml/reader.rs
\* lines 51-61): seek source to the start, clone it, replace the reader by
\* a new one over the clone (STRIPPER XML: with the old reader's scale).
\* The seek can fail; the clone can fail, after the seek; and the STRIPPER
\* XML reader's new_scaled can fail, after the seek and after the new
\* BufReader was filled.  A call that fails keeps the reader it had.
ReaderRewind ==
    /\ rd_format \in Formats
    /\ rd_calls < MaxRewinds
    /\ rd_calls' = rd_calls + 1
    /\ \/ /\ rd_last' = "err"
          /\ UNCHANGED <<rd_offset, rd_buf, rd_scale, rd_yielded, rd_eof,
                         rd_stale, rd_passes, rd_prev>>
       \/ /\ rd_offset' = 0
          /\ rd_stale' = TRUE
          /\ rd_last' = "err"
          /\ UNCHANGED <<rd_buf, rd_scale, rd_yielded, rd_eof, rd_passes,
                         rd_prev>>
       \/ /\ rd_format = "stripper_xml"
          /\ rd_offset' = NewOffset(rd_format, rd_file)
          /\ rd_stale' = TRUE
          /\ rd_last' = "err"
          /\ UNCHANGED <<rd_buf, rd_scale, rd_yielded, rd_eof, rd_passes,
                         rd_prev>>
       \/ /\ rd_offset' = NewOffset(rd_format, rd_file)
          /\ LET scale == rd_scale IN
                /\ rd_buf' = NewBuf(rd_format, rd_file)
                /\ rd_scale' = scale
          /\ rd_yielded' = <<>>
          /\ rd_eof' = FALSE
          /\ rd_stale' = FALSE
          /\ rd_passes' = rd_passes + 1
          /\ rd_prev' = Len(rd_yielded)
          /\ rd_last' = "rewind"
    /\ UNCHANGED <<rd_format, rd_file, rd_scale0>>
    /\ UNCHANGED <<loopVars, cellVars, runVars, lockVars, wtVars, optVars>>

\* FileReader::new (hepmc2/reader.rs lines 12-18, stripper_xml/reader.rs
\* lines 36-45) on a file opened at its start
InitReader ==
    /\ rd_format \in Formats
    /\ \E n \in 0..MaxRecords : rd_file \in [1..n -> RecordWeights]
    /\ rd_offset = NewOffset(rd_format, rd_file)
    /\ rd_buf = NewBuf(rd_format, rd_file)
    /\ rd_scale \in (IF rd_format = "stripper_xml" THEN Scales ELSE {1})
    /\ rd_scale0 = rd_scale
    /\ rd_yielded = <<>>
    /\ rd_eof = FALSE
    /\ rd_stale = FALSE
    /\ rd_passes = 0
    /\ rd_prev = 0
    /\ rd_calls = 0
    /\ rd_last = "new"
    /\ LoopIdle
    /\ CellIdle
    /\ RunIdle
    /\ LockIdle
    /\ WeightsIdle
    /\ OptIdle

NextReader == ReaderNext \/ ReaderRewind

SpecReader == InitReader /\ [][NextReader]_vars

(***************************************************************************)
(* Opt::validate (bin/opt.rs lines 319-332).  opt holds the three lepton   *)
(* options and two of the other options; an Option<T> is the empty set     *)
(* for None and {v} for Some(v).  The result is <<"Ok", opt>> or           *)
(* <<"Err", "BadLeptonOpt">>.                                              *)
(***************************************************************************)
JetAlgorithms == {"anti_kt", "kt"}
LeptonRadii == {1, 2}
LeptonPts == {1, 2}
ThreadCounts == {0, 1}

\* a validation that does not look at --leptonradius
validateIgnoresRadius(o) ==
    IF IsSome(o.leptonalgorithm) = IsSome(o.leptonpt)
    THEN <<"Ok", o>>
    ELSE <<"Err", "BadLeptonOpt">>

\* lines 326-330: the match on (leptonalgorithm, leptonpt, leptonradius)
validate(o) ==
    CASE IsSome(o.leptonalgorithm) /\ IsSome(o.leptonpt)
            /\ IsSome(o.leptonradius) -> <<"Ok", o>>
      [] ~IsSome(o.leptonalgorithm) /\ ~IsSome(o.leptonpt)
            /\ ~IsSome(o.leptonradius) -> <<"Ok", o>>
      [] OTHER -> <<"Err", "BadLeptonOpt">>

Validate ==
    /\ opt_pc = "call"
    /\ opt_result' = validate(opt)
    /\ opt_pc' = "returned"
    /\ UNCHANGED opt
    /\ UNCHANGED <<loopVars, cellVars, runVars, lockVars, wtVars, rdVars>>

InitOpt ==
    /\ opt \in [leptonalgorithm : OptionOf(JetAlgorithms),
                 leptonradius : OptionOf(LeptonRadii),
                 leptonpt : OptionOf(LeptonPts),
                 minweight : MinWeights,
                 threads : ThreadCounts]
    /\ opt_result = <<"none">>
    /\ opt_pc = "call"
    /\ LoopIdle
    /\ CellIdle
    /\ RunIdle
    /\ LockIdle
    /\ WeightsIdle
    /\ ReaderIdle

NextOpt == Validate

SpecOpt == InitOpt /\ [][NextOpt]_vars

(***************************************************************************)
(* Properties of run_main's resampling loop (Spec, FairSpec).              *)
(***************************************************************************)

\* C2: the sum of the central weights over the whole pool is the same as
\* before the loop, after every number of cells formed and at every point
\* of an iteration (choose seed, grow cell, resample).
TotalWeightPreserved == SumWeights(events) = orig_sum_wt

\* C2 witness: two cells have been resampled, weights have changed
TwoCellsResampled ==
    /\ pc = "loop"
    /\ ncells >= 2
    /\ \E i \in DOMAIN events : events[i].weight[2] > 1

\* C3: the loop terminates for every finite pool, pools of negative total
\* weight included.
LoopTerminates == <>(pc = "done")

\* C4: after the loop has finished no event has a negative central weight
\* (the loop has no cell-size cap).
NoNegativeWeightAfterLoop ==
    pc = "done" => \A i \in DOMAIN events : ~RNeg(events[i].weight)

\* C4 witness: the loop finished after forming cells around negative seeds
LoopDoneAfterCells ==
    /\ pc = "done"
    /\ ncells >= 2
    /\ Len(events) = MaxEvents

\* C5: an event that was a member of a cell is never the seed or an
\* admitted neighbour of a later cell.  It is stated for the pools of
\* non-negative total weight, on which the loop terminates, so that a
\* violation does not rest on a loop that never ends.
NoEventInTwoCells ==
    (pc = "grow" /\ ~RNeg(orig_sum_wt)) =>
        CellOf(events, rest_len) \cap used = {}

(***************************************************************************)
(* Properties of the cell builder and the naive iterator (SpecCell).       *)
(***************************************************************************)

\* C1: after Cell::resample of a cell built by Cell::new every member has
\* the same central weight, and the sum of the members' central weights is
\* the sum of their central weights before resample.
ResamplePreservesCellWeight ==
    cpc = "resampled" =>
        /\ \A i, j \in DOMAIN members :
                pool[members[i] + 1].weight = pool[members[j] + 1].weight
        /\ MemberWeightSum(pool, members) = pre_sum

\* C1 witness: a resampled cell of several members whose common weight is
\* a proper fraction
ResampledCellOfSeveral ==
    /\ cpc = "resampled"
    /\ Len(members) >= 3
    /\ pool[members[1] + 1].weight[2] > 1

\* C6: the iterator yields every point other than the seed exactly once,
\* in non-decreasing distance from the seed, and then None: n-1 items.
IterYieldsEachOtherPointOnce ==
    /\ cpc \in {"iter", "iterdone"} =>
        /\ \A i \in DOMAIN yielded :
            /\ yielded[i][1] \in 0..(Len(pool) - 1)
            /\ yielded[i][1] # seed_idx
            /\ yielded[i][2] = distance(pool[yielded[i][1] + 1], pool[seed_idx + 1])
        /\ \A i, j \in DOMAIN yielded :
            i < j => /\ yielded[i][1] # yielded[j][1]
                     /\ RLeq(yielded[i][2], yielded[j][2])
    /\ cpc = "iterdone" =>
        /\ Len(yielded) = Len(pool) - 1
        /\ {yielded[i][1] : i \in DOMAIN yielded} = (0..(Len(pool) - 1)) \ {seed_idx}

\* C6 witness: a query rooted at a point that is not the last one has
\* been consumed to the end
IterDrained ==
    /\ cpc = "iterdone"
    /\ Len(pool) = MaxEvents
    /\ seed_idx = 0
    /\ Len(yielded) = MaxEvents - 1

\* C7: among candidates at the same distance the one with the lowest id
\* is yielded first.
TiesYieldLowestIdFirst ==
    cpc \in {"iter", "iterdone"} =>
        \A i, j \in DOMAIN yielded :
            (i < j /\ yielded[i][2] = yielded[j][2]) => yielded[i][1] < yielded[j][1]

(***************************************************************************)
(* Properties of Cres::run and the writer (SpecRun).                       *)
(***************************************************************************)

\* C8: every record the writer passes to the output is the reader's record
\* whose stream index is the output event's id, and it carries that
\* event's resampled weight.
WrittenRecordIsTheEventsRecord ==
    \A k \in DOMAIN out :
        /\ out[k].idx = out[k].id
        /\ out[k].id = revents[k].id
        /\ out[k].weight = revents[k].weight

\* the log of a successful run over n records
SuccessLog(n) ==
    <<<<"rewind", 0>>>>
    \o [i \in 1..(2 * n) |->
            IF i % 2 = 1 THEN <<"read", (i - 1) \div 2>>
            ELSE <<"convert", (i - 2) \div 2>>]
    \o <<<<"resample", 0>>, <<"unweight", 0>>, <<"sort", 0>>,
         <<"rewind", 0>>, <<"write", 0>>>>

\* C9: in a successful run the stages happen in the order rewind, read and
\* convert every record, resample, unweight, sort, rewind, write, each
\* once; the writer is never invoked before the second rewind succeeded
\* and the resampler never before every record was read and converted.
StagesInOrder ==
    /\ result[1] = "Ok" => log = SuccessLog(Len(stream))
    /\ \A i \in DOMAIN log :
        /\ log[i][1] = "write" =>
            /\ CountOp(SubSeq(log, 1, i - 1), "rewind") = 2
            /\ result[1] # "RewindErr"
        /\ log[i][1] = "resample" =>
            /\ \A k \in 0..(Len(stream) - 1) :
                \E j \in 1..(i - 1) : log[j] = <<"convert", k>>
            /\ \A k \in DOMAIN stream : stream[k].kind = "ok"

\* C9 witness: a successful run over a full stream that wrote records
RunSucceeded ==
    /\ result[1] = "Ok"
    /\ Len(stream) = MaxEvents
    /\ Len(out) >= 2

\* C10: a reader error or converter failure in the first pass makes the
\* run return the error of the first failing record in stream order;
\* no later record is converted and neither the resampler, the
\* unweighter, the second rewind nor the writer is invoked.
FirstPassErrorAborts ==
    /\ result[1] \in {"ReadErr", "ConversionErr"} =>
        LET k == rpos - 1 IN
        /\ stream[k + 1].kind = (IF result[1] = "ReadErr" THEN "readerr" ELSE "converr")
        /\ \A j \in 1..k : stream[j].kind = "ok"
        /\ \A i \in DOMAIN log : log[i][1] = "convert" => log[i][2] <= k
        /\ result[1] = "ReadErr" => \A i \in DOMAIN log : log[i] # <<"convert", k>>
    /\ (\E j \in DOMAIN stream : stream[j].kind # "ok") =>
        /\ \A i \in DOMAIN log : log[i][1] \notin {"resample", "unweight", "sort", "write"}
        /\ CountOp(log, "rewind") <= 1
        /\ out = <<>>
        /\ rpc = "done" => result[1] \in {"RewindErr", "ReadErr", "ConversionErr"}

\* C10 witness: the run stopped on a failing record that has good records
\* before it and a failing record after it
AbortedOnFirstFailure ==
    /\ result[1] \in {"ReadErr", "ConversionErr"}
    /\ rpos - 1 = 1
    /\ Len(stream) = 3
    /\ stream[3].kind # "ok"

\* C11: when the converter fails on a record, the value Cres::run returns
\* names the stream index of the failing record.
ConversionErrNamesIndex ==
    result[1] = "ConversionErr" => result[2] = rpos - 1

\* C12: after ingestion the k-th record read (0-based) has id k; the ids
\* are sequential, pairwise distinct and cover 0..n-1 for n records.
IdsAreStreamPositions ==
    rpc = "resample" =>
        /\ Len(revents) = Len(stream)
        /\ \A i \in DOMAIN revents : revents[i].id = i - 1
        /\ \A i, j \in DOMAIN revents : i # j => revents[i].id # revents[j].id
        /\ Ids(revents) = 0..(Len(stream) - 1)

\* C12 witness: ids were assigned to a full stream
IdsAssigned ==
    /\ rpc = "resample"
    /\ Len(revents) = MaxEvents

\* the converter produced an event for record j (1-based) of the stream
Converted(j) ==
    /\ stream[j].kind = "ok"
    /\ \E i \in DOMAIN log : log[i] = <<"convert", j - 1>>

\* some event the converter produced carries a non-zero id
SomeNonZeroId == \E j \in DOMAIN stream : Converted(j) /\ stream[j].cid # 0

AllRecordsOk == \A j \in DOMAIN stream : stream[j].kind = "ok"

NoStageAfterIds ==
    /\ \A i \in DOMAIN log : log[i][1] \notin {"resample", "unweight", "write"}
    /\ out = <<>>

\* C13 as stated: if any event produced by the converter carries a
\* non-zero id the run returns IdErr with that id and invokes neither the
\* resampler, the unweighter nor the writer; if all converted events carry
\* id 0, IdErr is never returned.
NonZeroIdAlwaysIdErr ==
    /\ (SomeNonZeroId /\ rpc = "done") =>
            /\ result[1] = "IdErr"
            /\ \E j \in DOMAIN stream :
                    Converted(j) /\ stream[j].cid = result[2] /\ result[2] # 0
    /\ SomeNonZeroId => NoStageAfterIds
    /\ ~SomeNonZeroId => result[1] # "IdErr"

\* C13 amended: when every record of the stream was read and converted, a
\* non-zero id makes the run return IdErr with the id of the first such
\* event in stream order (a failing later record makes it return ReadErr
\* or ConversionErr instead); in both cases neither the resampler, the
\* unweighter nor the writer is invoked; if all converted events carry id
\* 0, IdErr is never returned.
FirstNonZeroIdIsIdErr ==
    /\ (SomeNonZeroId /\ AllRecordsOk /\ rpc = "done") =>
            /\ result[1] = "IdErr"
            /\ \E j \in DOMAIN stream :
                    /\ stream[j].cid = result[2]
                    /\ result[2] # 0
                    /\ \A i \in 1..(j - 1) : stream[i].cid = 0
    /\ (SomeNonZeroId /\ ~AllRecordsOk /\ rpc = "done") =>
            result[1] \in {"ReadErr", "ConversionErr"}
    /\ SomeNonZeroId => NoStageAfterIds
    /\ ~SomeNonZeroId => result[1] # "IdErr"

\* C13 witness: IdErr returned for a stream with two different non-zero
\* ids after an event with id 0
IdErrReturned ==
    /\ result[1] = "IdErr"
    /\ Len(stream) = 3
    /\ stream[1].cid = 0
    /\ stream[2].cid # 0
    /\ stream[3].cid \notin {0, stream[2].cid}

(***************************************************************************)
(* Properties of run_main after the loop (Spec).                           *)
(***************************************************************************)

IsSorted(evs) ==
    \A i, j \in DOMAIN evs : i < j => ~EventLess(evs[j], evs[i])

\* C14: the event sequence handed to the writer is sorted ascending by
\* central weight, equal weights by ascending id; no step after the sort
\* (in particular unweighting) changes a weight.
WriterGetsSortedEvents ==
    /\ pc = "write" => IsSorted(fevents)
    /\ (rpc \in {"write", "writing"} \/ out # <<>>) => IsSorted(revents)

\* C16: when the pool holds no event of negative weight, no cell is
\* formed, every weight is unchanged and the run goes on to the write
\* stage without an error or abort.
NoNegativeWeightRunContinues ==
    (\A i \in DOMAIN events : ~RNeg(events[i].weight)) /\ ncells = 0 =>
        /\ SumWeights(events) = orig_sum_wt
        /\ \A i \in DOMAIN events : events[i].dist = n64(0)
        /\ pc # "panic"

\* the weight of the event with this id after resampling
ResampledWeight(id) ==
    LET i == CHOOSE k \in DOMAIN events : events[k].id = id
    IN  events[i].weight

\* C20: with a minimum-weight threshold of 0 unweighting is not applied:
\* every event's weight after the unweighting stage is its weight after
\* resampling.
ZeroThresholdKeepsWeights ==
    (pc = "write" /\ minweight = 0) =>
        /\ Len(fevents) = Len(events)
        /\ \A i \in DOMAIN fevents :
                fevents[i].weight = ResampledWeight(fevents[i].id)

\* C20 witness: the unweighting stage was passed with threshold 0 by
\* events of which some weigh less than the floor another threshold sets
ZeroThresholdStagePassed ==
    /\ pc = "write"
    /\ minweight = 0
    /\ Len(fevents) = MaxEvents
    /\ ncells > 0
    /\ \E i \in DOMAIN fevents : RLess(fevents[i].weight, n64(1))

(***************************************************************************)
(* Properties of concurrent Cell::resample (SpecLock).                     *)
(***************************************************************************)

\* thread t can take a step
CanStep(t) ==
    \/ lk_pc[t] \in {"sort", "unlock", "single"}
    \/ /\ lk_pc[t] = "lock"
       /\ \/ lk_guards[t] = Len(lk_members[t])
          \/ /\ lk_guards[t] < Len(lk_members[t])
             /\ lk_holder[lk_members[t][lk_guards[t] + 1]] = 0

\* C17: concurrent Cell::resample calls on cells with overlapping members
\* never deadlock: while a call has not returned some call can proceed,
\* the locks are taken in ascending member index, and a call that has
\* returned holds no lock.
ResampleNeverDeadlocks ==
    /\ (\E t \in Threads : lk_pc[t] # "done") => \E t \in Threads : CanStep(t)
    /\ \A t \in Threads : lk_pc[t] = "lock" =>
            \A i, j \in DOMAIN lk_members[t] :
                i < j => lk_members[t][i] < lk_members[t][j]
    /\ \A t \in Threads : lk_pc[t] = "done" =>
            \A e \in LockEvents : lk_holder[e] # t

\* C17 witness: a call waits for a lock the other call holds, the two
\* cells having listed two common members in opposite orders
LockContended ==
    \E t, u \in Threads :
        /\ t # u
        /\ lk_pc[u] = "lock"
        /\ lk_guards[u] < Len(lk_members[u])
        /\ lk_holder[lk_members[u][lk_guards[u] + 1]] = t
        /\ \E i, j \in DOMAIN lk_built[t] : \E k, l \in DOMAIN lk_built[u] :
                /\ i < j /\ l < k
                /\ lk_built[t][i] = lk_built[u][k]
                /\ lk_built[t][j] = lk_built[u][l]

(***************************************************************************)
(* Properties of extract_weights (SpecWeights).                            *)
(***************************************************************************)

\* the names the event's weights carry
PresentNames == {wt_event[i].name : i \in DOMAIN wt_event} \ {""}

\* C18: extract_weights fails with WeightNotFound exactly when a requested
\* name is absent from the event's weights; the error carries a missing
\* name and the list of all names present in the event; otherwise the
\* result is Ok with the central weight at position 0.
WeightNotFoundIffNameAbsent ==
    wt_pc = "returned" =>
        /\ wt_result[1] \in {"Ok", "WeightNotFound"}
        /\ wt_result[1] = "WeightNotFound" <=>
                \E n \in weight_names : n \notin PresentNames
        /\ wt_result[1] = "WeightNotFound" =>
                /\ wt_result[2] \in weight_names \ PresentNames
                /\ wt_result[3] = AllNames(wt_event)
                /\ {wt_result[3][i] : i \in DOMAIN wt_result[3]} = PresentNames
        /\ wt_result[1] = "Ok" =>
                wt_result[2][1] = n64(wt_event[1].weight)

\* C18 witness: of two requested names one is present and one is not,
\* and the present one names the first entry
OneNameMissing ==
    /\ wt_pc = "returned"
    /\ wt_result[1] = "WeightNotFound"
    /\ weight_names = WeightNames
    /\ wt_event[1].name \in weight_names
    /\ Len(wt_event) = MaxWeights

(***************************************************************************)
(* Properties of FileReader (SpecReader).                                  *)
(***************************************************************************)

\* the first k records as the first pass yields them
FirstPass(k) == [i \in 1..k |-> rd_file[i] * rd_scale0]

\* C19: after a rewind succeeded, the reader yields the records of its
\* first pass from the start of the file, however many were consumed
\* before; the reader a rewind leaves does not depend on what preceded it,
\* so rewinding twice in a row is rewinding once; the STRIPPER XML scale
\* is the one the reader had before.
RewindReplaysFirstPass ==
    (rd_passes >= 1 /\ ~rd_stale) =>
        /\ Len(rd_yielded) <= Len(rd_file)
        /\ rd_yielded = FirstPass(Len(rd_yielded))
        /\ rd_eof => Len(rd_yielded) = Len(rd_file)
        /\ rd_scale = rd_scale0
        /\ rd_last = "rewind" =>
                /\ rd_offset = NewOffset(rd_format, rd_file)
                /\ rd_buf = NewBuf(rd_format, rd_file)
                /\ rd_yielded = <<>>
                /\ ~rd_eof

\* C19 witness: the whole file was read again after two rewinds, the
\* pass before having stopped part way with a record left in the buffer
ReplayedAfterPartialPass ==
    /\ rd_passes >= 2
    /\ ~rd_stale
    /\ rd_eof
    /\ Len(rd_file) = MaxRecords
    /\ rd_file[1] # rd_file[2]
    /\ rd_prev = 1
    /\ rd_scale0 = 2

(***************************************************************************)
(* Properties of Opt::validate (SpecOpt).                                  *)
(***************************************************************************)

\* the number of lepton options that are set
LeptonOptsSet ==
    (IF IsSome(opt.leptonalgorithm) THEN 1 ELSE 0)
    + (IF IsSome(opt.leptonradius) THEN 1 ELSE 0)
    + (IF IsSome(opt.leptonpt) THEN 1 ELSE 0)

\* C21: validate returns Ok exactly when --leptonalgorithm, --leptonradius
\* and --leptonpt are all set or all unset, and BadLeptonOpt for each of
\* the six mixed combinations; on Ok the options are returned unchanged.
ValidateAllOrNone ==
    opt_pc = "returned" =>
        /\ opt_result[1] = "Ok" <=> LeptonOptsSet \in {0, 3}
        /\ opt_result[1] = "Ok" => opt_result[2] = opt
        /\ LeptonOptsSet \in {1, 2} => opt_result = <<"Err", "BadLeptonOpt">>

\* C21 witness: validate rejected options with the algorithm and the
\* minimum pt set but no radius
MixedLeptonOptsRejected ==
    /\ opt_pc = "returned"
    /\ opt_result[1] = "Err"
    /\ IsSome(opt.leptonalgorithm)
    /\ IsSome(opt.leptonpt)
    /\ ~IsSome(opt.leptonradius)

(***************************************************************************)
(* Further properties of Cell::new (SpecCell).                             *)
(***************************************************************************)

\* the members are the seed and the items the iterator yielded, in that
\* order, and weight_sum is the sum of their central weights
MembersAsYielded ==
    /\ weight_sum = MemberWeightSum(pool, members)
    /\ members = <<seed_idx>> \o [i \in DOMAIN yielded |-> yielded[i][1]]

\* the loop is still running on a negative sum, or it ended on the first
\* prefix with a sum >= 0, or the iterator is exhausted
StoppedAtFirstNonNegativePrefix ==
    /\ cpc = "grow" => RNeg(weight_sum)
    /\ cpc = "built" =>
            \/ /\ ~RNeg(weight_sum)
               /\ \A k \in 1..(Len(members) - 1) :
                    RNeg(MemberWeightSum(pool, SubSeq(members, 1, k)))
            \/ candidates = <<>>

\* C22: Cell::new, called on a seed of negative weight as its assertion
\* of line 35 requires, admits neighbours in the order the iterator
\* yields them and stops at the first prefix whose weight sum, seed
\* included, is >= 0: when it ends, either weight_sum >= 0 and the sum
\* after every smaller number of admitted members was < 0, or the iterator
\* is exhausted; weight_sum is always the sum of the current members'
\* central weights.
CellStopsAtFirstNonNegativePrefix ==
    cpc \in {"grow", "built"} =>
        /\ MembersAsYielded
        /\ RNeg(pool[seed_idx + 1].weight) => StoppedAtFirstNonNegativePrefix

\* C22 witness: a cell that needed two neighbours to reach a weight sum
\* that is not negative
CellBuiltFromTwoNeighbours ==
    /\ cpc = "built"
    /\ RNeg(pool[seed_idx + 1].weight)
    /\ ~RNeg(weight_sum)
    /\ Len(members) = 3

\* the distance from the seed to member m of the cell
SeedDistance(m) == distance(pool[seed_idx + 1], pool[m + 1])

\* C28: the radius of a cell is the largest distance from the seed to any
\* of its members (0 for a cell of the seed alone), which is the distance
\* from the seed to the last admitted member.
RadiusIsLargestMemberDistance ==
    cpc \in {"grow", "built", "resampled"} =>
        /\ \A i \in DOMAIN members : RLeq(SeedDistance(members[i]), radius)
        /\ \E i \in DOMAIN members : SeedDistance(members[i]) = radius
        /\ radius = SeedDistance(members[Len(members)])
        /\ Len(members) = 1 => radius = n64(0)

\* C28 witness: a cell of three members at three different distances
CellOfThreeDistances ==
    /\ cpc = "built"
    /\ Len(members) = 3
    /\ SeedDistance(members[2]) # n64(0)
    /\ SeedDistance(members[2]) # SeedDistance(members[3])

\* C23: with a maximum cell size configured the cell builder admits no
\* candidate farther from the seed than that, so no cell's radius
\* exceeds max_cell_size.
RadiusWithinMaxCellSize ==
    cpc \in {"grow", "built", "resampling", "resampled"} =>
        \A c \in max_cell_size :
            /\ RLeq(radius, n64(c))
            /\ \A i \in DOMAIN members : RLeq(SeedDistance(members[i]), n64(c))

(***************************************************************************)
(* Further properties of run_main (Spec).                                  *)
(***************************************************************************)

\* a seed was chosen in the last step: it is the last event and no
\* neighbour has been admitted yet
SeedJustChosen == pc = "grow" /\ rest_len = Len(events) - 1

\* C24: every seed the loop chooses has the minimum central weight of the
\* pool at that moment and that weight is < 0; among the events sharing
\* the minimum weight the one with the lowest id is chosen, whatever
\* positions earlier swaps have moved the events to.
SeedIsLowestIdMinimum ==
    SeedJustChosen =>
        LET seed == events[Len(events)] IN
        /\ RNeg(seed.weight)
        /\ cell_weight = seed.weight
        /\ \A i \in DOMAIN events : RLeq(seed.weight, events[i].weight)
        /\ \A i \in DOMAIN events :
                events[i].weight = seed.weight => seed.id <= events[i].id

\* C25: in the write loop of bin/main.rs the records before an event's id
\* are skipped and the record written for an event is the one whose stream
\* index equals the event's id: no unwrap meets an exhausted reader, the
\* debug assertion holds and every written record has idx = id.
WrittenRecordIsEventsRecord ==
    /\ pc \notin {"unwrap_none", "assert_failed"}
    /\ \A i \in DOMAIN written : written[i].idx = written[i].id

\* C26: FileWriter::write_all hands the main writer exactly one record per
\* output event, in the order of the slice, and then finishes the writers:
\* the written records follow the slice event by event, no input record is
\* written twice or after a later one, the call never dies in
\* next().unwrap() on an exhausted reader, and a call that returned Ok has
\* written every event.
WriteAllWritesEachEventOnce ==
    /\ Len(out) <= Len(revents)
    /\ \A i \in DOMAIN out : out[i].id = revents[i].id
    /\ \A i, j \in DOMAIN out : i < j => out[i].idx < out[j].idx
    /\ result # <<"panic", 0>>
    /\ (rpc = "done" /\ result[1] = "Ok") => Len(out) = Len(revents)

(***************************************************************************)
(* Further properties of Cell::resample (SpecLock)                         *)
(***************************************************************************)
\* thread t resamples its cell in this step
Resamples(t) == lk_pc[t] = "lock" /\ lk_pc'[t] = "unlock"

\* the weight the single-weight Cell::resample writes (cell.rs line 103)
SingleWeightAvg(t) == RDivUsize(lk_weight_sum[t], Len(lk_members[t]))

\* after the step every member of t's cell has the single-weight value as
\* component 0 and the mean over the members in the other component
ResampledLikeSingleWeight(t) ==
    \A i \in DOMAIN lk_members[t] :
        LET e == lk_members[t][i] IN
        /\ lk_weights'[e][1] = SingleWeightAvg(t)
        /\ lk_weights'[e][2] =
               RDivUsize(SumComponent(lk_weights, lk_built[t], 2),
                         Len(lk_built[t]))

\* the cell's weight_sum is the sum of its members' central weights
WeightSumCurrent(t) ==
    lk_weight_sum[t] = SumComponent(lk_weights, lk_built[t], 1)

\* C27 as stated: whenever a cell is resampled in multi-weight mode,
\* component 0 of every member becomes weight_sum / nmembers, the value of
\* the single-weight resample, and the other component becomes its mean.
MultiweightMatchesSingleWeight ==
    [][\A t \in Threads : Resamples(t) => ResampledLikeSingleWeight(t)]_vars

\* C27, amended: the same for a cell whose weight_sum still is the sum of
\* its members' central weights when it is resampled.
MultiweightMatchesCurrentSum ==
    [][\A t \in Threads :
            (Resamples(t) /\ WeightSumCurrent(t)) => ResampledLikeSingleWeight(t)]_vars

\* a cell of two events with weights (-1, 1) and (1, 2) was resampled to
\* (0, 3/2) while its weight_sum was current
ResampledTwoVectors ==
    \E t \in Threads :
        /\ lk_pc[t] = "done"
        /\ Len(lk_members[t]) = 2
        /\ lk_weight_sum[t] = n64(0)
        /\ \A i \in DOMAIN lk_members[t] :
                lk_weights[lk_members[t][i]] = <<n64(0), <<3, 2>>>>

\* the entries of ms are pairwise distinct
PairwiseDistinct(ms) == \A i, j \in DOMAIN ms : i # j => ms[i] # ms[j]

\* the member list Cell::new returns, and the one the single-weight
\* resample leaves, starts with the seed and has no repeated entry
SeedFirstAfterNew ==
    cpc \in {"built", "resampled"} =>
        /\ members[1] = seed_idx
        /\ PairwiseDistinct(members)

\* C29: the first entry of a cell's member list is its seed and the
\* members are pairwise distinct, after Cell::new and after
\* Cell::resample in single-weight and in multi-weight mode.
SeedFirstMembersDistinct ==
    /\ SeedFirstAfterNew
    /\ \A t \in DOMAIN lk_pc :
            lk_pc[t] = "done" =>
                /\ lk_members[t][1] = lk_built[t][1]
                /\ PairwiseDistinct(lk_members[t])

(***************************************************************************)
(* Further properties of extract_weights (SpecWeights)                     *)
(***************************************************************************)
\* C30: every successful extract_weights returns a vector of length
\* 1 + the number of requested names, whatever the event, so that the
\* weight vectors of all events converted with the same names have the
\* same length.
ExtractedLengthIsNamesPlusOne ==
    (wt_pc = "returned" /\ wt_result[1] = "Ok") =>
        Len(wt_result[2]) = 1 + Cardinality(weight_names)

====
